---- MODULE Spec2Model ----
(***************************************************************************)
(* Model of cli_weather/location.py: the coordinate validator, the         *)
(* location resolver, the repository operations on the configuration       *)
(* document and the interactive flows built on them.                       *)
(*                                                                         *)
(* Python strings that the program splits, strips, parses or formats are   *)
(* sequences of one-character strings; names and messages that are only    *)
(* compared or stored are TLA+ strings.                                    *)
(***************************************************************************)
EXTENDS Integers, Sequences, FiniteSets, TLC

VARIABLES
    value,      \* the validator's argument (a character sequence)
    verdict,    \* outcome of is_valid_location(value), "pending" before the call
    VARS,       \* config.VARS: the environment-sourced name -> string map
    doc,        \* the persisted configuration document (what load_config reads)
    fl,         \* per invocation: the frame of the flow in progress / last run
    prev,       \* per invocation: the flow completed before fl, if a save_location call
    missed,     \* per invocation: who called save_config since its load_config
    quota,      \* per invocation: flows it may still start (-1: no limit)
    active      \* the invocations of the tool that run

vars == <<value, verdict, VARS, doc, fl, prev, missed, quota, active>>

---------------------------------------------------------------------------
(* Bounds of the model *)

\* longest validator argument that is enumerated
MaxLen == 6
\* number of concurrent invocations of the tool in SpecRace
NumProcs == 2
\* how many times get_location_input may re-prompt within one flow
MaxRetries == 1

---------------------------------------------------------------------------
(* Character sequences and Python's str / float primitives *)

Alphabet == {"0", "1", "8", "9", "-", ",", ".", " "}

Digits == {"0", "1", "2", "3", "4", "5", "6", "7", "8", "9"}

DigitVal(c) ==
    CASE c = "0" -> 0 [] c = "1" -> 1 [] c = "2" -> 2 [] c = "3" -> 3
      [] c = "4" -> 4 [] c = "5" -> 5 [] c = "6" -> 6 [] c = "7" -> 7
      [] c = "8" -> 8 [] c = "9" -> 9

DigitChar(d) ==
    CASE d = 0 -> "0" [] d = 1 -> "1" [] d = 2 -> "2" [] d = 3 -> "3"
      [] d = 4 -> "4" [] d = 5 -> "5" [] d = 6 -> "6" [] d = 7 -> "7"
      [] d = 8 -> "8" [] d = 9 -> "9"

RECURSIVE Pow10(_)
Pow10(k) == IF k = 0 THEN 1 ELSE 10 * Pow10(k - 1)

\* str.split(sep): the pieces between separators, at least one piece
RECURSIVE SplitFrom(_, _, _)
SplitFrom(s, sep, cur) ==
    IF s = <<>> THEN <<cur>>
    ELSE IF Head(s) = sep THEN <<cur>> \o SplitFrom(Tail(s), sep, <<>>)
    ELSE SplitFrom(Tail(s), sep, Append(cur, Head(s)))

Split(s, sep) == SplitFrom(s, sep, <<>>)

\* str.strip(): leading and trailing blanks removed
RECURSIVE LStrip(_)
LStrip(s) == IF s # <<>> /\ Head(s) = " " THEN LStrip(Tail(s)) ELSE s

RECURSIVE RStrip(_)
RStrip(s) ==
    IF s # <<>> /\ s[Len(s)] = " " THEN RStrip(SubSeq(s, 1, Len(s) - 1)) ELSE s

Strip(s) == RStrip(LStrip(s))

RECURSIVE NatOf(_)
NatOf(ds) ==
    IF ds = <<>> THEN 0
    ELSE 10 * NatOf(SubSeq(ds, 1, Len(ds) - 1)) + DigitVal(ds[Len(ds)])

IsDigit(c) == c \in Digits

\* A float is the decimal m / 10^k.
Float(m, k) == [m |-> m, k |-> k]

\* float(str): blanks stripped, optional sign, digits with at most one point
\* and at least one digit; anything else is a ValueError (ok = FALSE).
ParseFloat(tok) ==
    LET t      == Strip(tok)
        signed == t # <<>> /\ t[1] \in {"-", "+"}
        body   == IF signed THEN Tail(t) ELSE t
        dots   == {i \in 1..Len(body) : body[i] = "."}
        digs   == SelectSeq(body, IsDigit)
        ok     == /\ \A i \in 1..Len(body) : body[i] \in Digits \cup {"."}
                  /\ Cardinality(dots) <= 1
                  /\ digs # <<>>
        k      == IF dots = {} THEN 0 ELSE Len(body) - (CHOOSE i \in dots : TRUE)
        mag    == NatOf(digs)
    IN  IF ~ok THEN [ok |-> FALSE, val |-> Float(0, 0)]
        ELSE [ok |-> TRUE,
              val |-> Float(IF t[1] = "-" THEN 0 - mag ELSE mag, k)]

\* a <= x and x <= b for integers a, b and a float x
FloatBetween(a, x, b) == a * Pow10(x.k) <= x.m /\ x.m <= b * Pow10(x.k)

---------------------------------------------------------------------------
(* is_valid_location *)

LatMax == 90
LonMax == 180

\* lat, lon = map(float, value.split(",")): the lazy map is consumed by the
\* unpacking, which asks for a third item to detect a surplus.
UnpackFloats(toks) ==
    IF ~ParseFloat(toks[1]).ok THEN [exc |-> "ValueError"]
    ELSE IF Len(toks) < 2 THEN [exc |-> "ValueError"]
    ELSE IF ~ParseFloat(toks[2]).ok THEN [exc |-> "ValueError"]
    ELSE IF Len(toks) > 2 THEN [exc |-> "ValueError"]
    ELSE [exc |-> "none"]

ValidatorCaught == {"ValueError", "TypeError"}

\* the latitude held to the longitude's bound
InRangeLonBound(lat, lon) ==
    FloatBetween(0 - LonMax, lat, LonMax) /\ FloatBetween(0 - LonMax, lon, LonMax)

InRange(lat, lon) ==
    FloatBetween(0 - LatMax, lat, LatMax) /\ FloatBetween(0 - LonMax, lon, LonMax)

\* the call's outcome: "True", "False", or the name of an escaping exception
is_valid_location_outcome(v) ==
    LET toks == Split(v, ",")
        u    == UnpackFloats(toks)
    IN  IF u.exc # "none"
        THEN IF u.exc \in ValidatorCaught THEN "False" ELSE u.exc
        ELSE IF InRange(ParseFloat(toks[1]).val, ParseFloat(toks[2]).val)
             THEN "True" ELSE "False"

is_valid_location(v) == is_valid_location_outcome(v) = "True"

---------------------------------------------------------------------------
(* Specification of the validator alone *)

\* the strings of n characters
StringsOfLen(n) == [1..n -> Alphabet]

NoProc == [p \in {} |-> 0]

InitValid ==
    /\ \E n \in 0..MaxLen : value \in StringsOfLen(n)
    /\ verdict = "pending"
    /\ VARS = NoProc /\ doc = NoProc /\ fl = NoProc /\ prev = NoProc
    /\ missed = NoProc /\ quota = NoProc /\ active = {}

Validate ==
    /\ verdict = "pending"
    /\ verdict' = is_valid_location_outcome(value)
    /\ UNCHANGED <<value, VARS, doc, fl, prev, missed, quota, active>>

NextValid == Validate

SpecValid == InitValid /\ [][NextValid]_vars

---------------------------------------------------------------------------
(* str(float): Python's shortest decimal form for the magnitudes modelled *)

RECURSIVE NatStr(_)
NatStr(n) ==
    IF n < 10 THEN <<DigitChar(n)>>
    ELSE Append(NatStr(n \div 10), DigitChar(n % 10))

RECURSIVE Normalise(_)
Normalise(x) ==
    IF x.k > 0 /\ x.m % 10 = 0 THEN Normalise(Float(x.m \div 10, x.k - 1)) ELSE x

RECURSIVE PadLeft(_, _)
PadLeft(ds, n) == IF Len(ds) >= n THEN ds ELSE PadLeft(<<"0">> \o ds, n)

FloatStr(x) ==
    LET y    == Normalise(x)
        mag  == IF y.m < 0 THEN 0 - y.m ELSE y.m
        ip   == NatStr(mag \div Pow10(y.k))
        fp   == IF y.k = 0 THEN <<"0">> ELSE PadLeft(NatStr(mag % Pow10(y.k)), y.k)
        sign == IF y.m < 0 THEN <<"-">> ELSE <<>>
    IN  sign \o ip \o <<".">> \o fp

\* f"{lat}, {lon}"
CoordStr(lat, lon) == FloatStr(lat) \o <<",", " ">> \o FloatStr(lon)

---------------------------------------------------------------------------
(* Exceptions: the classes the resolver names and their base classes *)

Bases(e) ==
    CASE e = "ConnectTimeout"        -> {"ConnectionError", "Timeout"}
      [] e = "ReadTimeout"           -> {"Timeout"}
      [] e = "SSLError"              -> {"ConnectionError"}
      [] e = "Timeout"               -> {"RequestException"}
      [] e = "ConnectionError"       -> {"RequestException"}
      [] e = "HTTPError"             -> {"RequestException"}
      [] e = "RequestException"      -> {"Exception"}
      [] e = "GeocoderTimedOut"      -> {"GeocoderServiceError"}
      [] e = "GeocoderUnavailable"   -> {"GeocoderServiceError"}
      [] e = "GeocoderQuotaExceeded" -> {"GeocoderServiceError"}
      [] e = "GeocoderServiceError"  -> {"Exception"}
      [] e = "CLIWeatherException"   -> {"Exception"}
      [] e = "KeyError"              -> {"Exception"}
      [] e = "ValueError"            -> {"Exception"}
      [] OTHER                       -> {}

RECURSIVE IsInstance(_, _)
IsInstance(e, cls) == e = cls \/ \E b \in Bases(e) : IsInstance(b, cls)

\* what requests.get / raise_for_status may raise
TransportExcs ==
    {"Timeout", "ConnectTimeout", "ReadTimeout", "ConnectionError", "SSLError",
     "HTTPError", "RequestException"}

\* what the geocoder may raise
GeocoderExcs ==
    {"GeocoderTimedOut", "GeocoderUnavailable", "GeocoderQuotaExceeded",
     "GeocoderServiceError"}

(* Messages are sequences of words, punctuation apart. *)
MsgTimeout ==
    <<"Failed", "to", "get", "your", "current", "location", ",", "Request",
      "timed", "out", ".", "Please", "check", "your", "network", "connection", ".">>
MsgConnection ==
    <<"Failed", "to", "get", "your", "current", "location", ",", "Network",
      "error", ".", "Please", "check", "your", "connection", "and", "try",
      "again", ".">>
MsgRequest ==
    <<"Failed", "to", "get", "your", "current", "location", ",", "Please",
      "try", "again", "later", ".">>
MsgGeoTimeoutMe ==
    <<"Failed", "to", "get", "your", "current", "location", ",", "geocoding",
      "timed", "out", ".", "Please", "check", "your", "network", "connection", ".">>
MsgUnavailable ==
    <<"Geocoding", "service", "is", "unavailable", ".", "Please", "check",
      "your", "internet", "connection", ".">>
\* the query itself stands in the message as one word
MsgNotFound(addr) == <<"Could", "not", "find", "location", ":", "<addr>">>
MsgGeoTimeout ==
    <<"Could", "not", "find", "location", ",", "Geocoding", "timed", "out", ".">>

ApproxName ==
    <<"A", "p", "p", "r", "o", "x", "i", "m", "a", "t", "e", " ",
      "l", "o", "c", "a", "t", "i", "o", "n", " ", "b", "a", "s", "e", "d", " ",
      "o", "n", " ", "I", "P">>

\* the first try block without its geocoder-unavailable clause
MeHandlersShort ==
    << [catch |-> "Timeout",             msg |-> MsgTimeout],
       [catch |-> "ConnectionError",     msg |-> MsgConnection],
       [catch |-> "RequestException",    msg |-> MsgRequest],
       [catch |-> "GeocoderTimedOut",    msg |-> MsgGeoTimeoutMe] >>

\* the except clauses of the two try blocks, in source order
MeHandlers ==
    << [catch |-> "Timeout",             msg |-> MsgTimeout],
       [catch |-> "ConnectionError",     msg |-> MsgConnection],
       [catch |-> "RequestException",    msg |-> MsgRequest],
       [catch |-> "GeocoderTimedOut",    msg |-> MsgGeoTimeoutMe],
       [catch |-> "GeocoderUnavailable", msg |-> MsgUnavailable] >>

AddrHandlers ==
    << [catch |-> "GeocoderTimedOut",    msg |-> MsgGeoTimeout],
       [catch |-> "GeocoderUnavailable", msg |-> MsgUnavailable] >>

NoFloat == Float(0, 0)

Returned(address, lat, lon) ==
    [kind |-> "return", exc |-> "none", msg |-> <<>>, cause |-> "none",
     address |-> address, lat |-> lat, lon |-> lon]

Raised(exc, msg, cause) ==
    [kind |-> "raise", exc |-> exc, msg |-> msg, cause |-> cause,
     address |-> <<>>, lat |-> NoFloat, lon |-> NoFloat]

\* an exception raised inside a try block meets its except clauses in order;
\* the closing "except Exception: raise" re-raises what no clause took
Dispatch(exc, msg, handlers) ==
    LET hits == {i \in 1..Len(handlers) : IsInstance(exc, handlers[i].catch)}
    IN  IF hits = {} THEN Raised(exc, msg, exc)
        ELSE LET i == CHOOSE j \in hits : \A h \in hits : j <= h
             IN  Raised("CLIWeatherException", handlers[i].msg, exc)

\* str.lower() on the letters the queries use
LowerChar(c) ==
    CASE c = "M" -> "m" [] c = "E" -> "e" [] c = "P" -> "p" [] OTHER -> c

Lower(s) == [i \in 1..Len(s) |-> LowerChar(s[i])]

(* The collaborators' behaviour during one call:
     ip   "ok" or the exception requests.get / raise_for_status raises
     hasLoc, loc  whether the JSON body has a "loc" field, and its value
     rev  "addr", "none" or the exception geolocator.reverse raises
     geo  "hit", "none" or the exception geolocator.geocode raises
     place  the (address, latitude, longitude) a geocoder hit carries *)
get_location(addr, w) ==
    IF Lower(addr) = <<"m", "e">>
    THEN IF w.ip # "ok" THEN Dispatch(w.ip, <<>>, MeHandlers)
         ELSE IF ~w.hasLoc THEN Dispatch("KeyError", <<>>, MeHandlers)
         ELSE LET toks == Split(w.loc, ",")
              IN  IF UnpackFloats(toks).exc # "none"
                  THEN Dispatch(UnpackFloats(toks).exc, <<>>, MeHandlers)
                  ELSE LET lat == Normalise(ParseFloat(toks[1]).val)
                           lon == Normalise(ParseFloat(toks[2]).val)
                       IN  IF w.rev = "addr" THEN Returned(w.place.address, lat, lon)
                           ELSE IF w.rev = "none" THEN Returned(ApproxName, lat, lon)
                           ELSE Dispatch(w.rev, <<>>, MeHandlers)
    ELSE IF w.geo = "hit"
         THEN Returned(w.place.address, w.place.lat, w.place.lon)
         ELSE IF w.geo = "none"
         THEN Dispatch("CLIWeatherException", MsgNotFound(addr), AddrHandlers)
         ELSE Dispatch(w.geo, <<>>, AddrHandlers)

---------------------------------------------------------------------------
(* The configuration document and the repository operations *)

\* a Python dict is a function on its keys
EmptyDict == [k \in {} |-> <<>>]

Put(d, k, v) == [x \in DOMAIN d \cup {k} |-> IF x = k THEN v ELSE d[x]]

Remove(d, k) == [x \in DOMAIN d \ {k} |-> d[x]]

\* {**b, **a}: the entries of a override those of b
MergeFirstWins(a, b) ==
    [x \in DOMAIN a \cup DOMAIN b |-> IF x \in DOMAIN a THEN a[x] ELSE b[x]]

\* {**a, **b}: the entries of b override those of a
Merge(a, b) == [x \in DOMAIN a \cup DOMAIN b |-> IF x \in DOMAIN b THEN b[x] ELSE a[x]]

\* d.get(k, default)
Get(d, k, default) == IF k \in DOMAIN d THEN d[k] ELSE default

\* config.load_config(): the document as persisted, read afresh
load_config(d) == d

\* config.save_config(configuration): the whole document replaces the persisted one
save_config(configuration) == configuration

load_locations(d, env, add_sensitive) ==
    LET non_sensitive_locations == Get(load_config(d), "locations", EmptyDict)
        sensitive_locations ==
            [key \in {k \in DOMAIN env : is_valid_location(env[k])} |-> env[key]]
    IN  IF add_sensitive
        THEN Merge(sensitive_locations, non_sensitive_locations)
        ELSE non_sensitive_locations

\* configuration.get("locations", {})[location_name] = coordinate: a map made
\* for an absent key is never attached to the document
GetPut(configuration, location_name, coordinate) ==
    IF "locations" \in DOMAIN configuration
    THEN Put(configuration, "locations",
             Put(configuration["locations"], location_name, coordinate))
    ELSE configuration

\* configuration.setdefault("locations", {}).setdefault(location_name, coordinate):
\* a name already present keeps its coordinate
SetDefaultTwice(configuration, location_name, coordinate) ==
    LET L == Get(configuration, "locations", EmptyDict)
    IN  Put(configuration, "locations",
            IF location_name \in DOMAIN L THEN L ELSE Put(L, location_name, coordinate))

\* configuration.setdefault("locations", {})[location_name] = coordinate
SetDefaultPut(configuration, location_name, coordinate) ==
    Put(configuration, "locations",
        Put(Get(configuration, "locations", EmptyDict), location_name, coordinate))

---------------------------------------------------------------------------
(* What the user types and what the collaborators answer *)

NameA == <<"A">>
Paris == <<"P", "a", "r", "i", "s">>

CoordOk  == <<"1", ",", "2">>
CoordBad == <<"9", "1", ",", "0">>
CoordOne == <<"1", "8">>

\* names and coordinates typed at the prompts, and passed to save_location
TypedNames  == {NameA}
TypedCoords == {CoordOk, CoordBad, CoordOne}
ArgNames    == {NameA, Paris}
ArgCoords   == {CoordOk, CoordBad, CoordOne}
\* answers to "Enter a name for this location: "
TypedSaveNames == {NameA, <<" ">>, <<>>}

Queries == {<<"m", "e">>, <<"M", "E">>, Paris}

Places ==
    {[address |-> Paris, lat |-> Float(485, 1), lon |-> Float(2, 0)],
     [address |-> Paris, lat |-> Float(0, 0), lon |-> Float(2, 0)]}

NoPlace == [address |-> <<>>, lat |-> NoFloat, lon |-> NoFloat]

LocStrings == {<<"4", "8", ".", "5", ",", "2">>, <<"4", "8">>}

World(ip, hasLoc, loc, rev, geo, place) ==
    [ip |-> ip, hasLoc |-> hasLoc, loc |-> loc, rev |-> rev, geo |-> geo,
     place |-> place]

\* the collaborators' behaviours that differ in what get_location sees
MeWorlds ==
    {World(e, FALSE, <<>>, "none", "none", NoPlace) : e \in TransportExcs}
    \cup {World("ok", FALSE, <<>>, "none", "none", NoPlace)}
    \cup {World("ok", TRUE, l, "none", "none", NoPlace) : l \in LocStrings}
    \cup {World("ok", TRUE, l, "addr", "none", pl) : l \in LocStrings, pl \in Places}
    \cup {World("ok", TRUE, l, e, "none", NoPlace) : l \in LocStrings, e \in GeocoderExcs}

AddrWorlds ==
    {World("ok", FALSE, <<>>, "none", "hit", pl) : pl \in Places}
    \cup {World("ok", FALSE, <<>>, "none", "none", NoPlace)}
    \cup {World("ok", FALSE, <<>>, "none", e, NoPlace) : e \in GeocoderExcs}

NoWorld == World("ok", FALSE, <<>>, "none", "none", NoPlace)

Worlds(addr) == IF Lower(addr) = <<"m", "e">> THEN MeWorlds ELSE AddrWorlds

---------------------------------------------------------------------------
(* Frames: the locals of one flow of one invocation *)

NoRes ==
    [kind |-> "none", exc |-> "none", msg |-> <<>>, cause |-> "none",
     address |-> <<>>, lat |-> NoFloat, lon |-> NoFloat]

IdleFrame ==
    [op |-> "idle", pc |-> "done", name |-> <<>>, coord |-> <<>>,
     query |-> <<>>, world |-> NoWorld, res |-> NoRes,
     pre |-> EmptyDict, cfg |-> EmptyDict, loaded |-> FALSE,
     out |-> "none", console |-> <<>>, saved |-> FALSE, ret |-> EmptyDict,
     sensitive |-> FALSE, lost |-> {}, latest |-> FALSE, retries |-> 0]

NoSummary ==
    [op |-> "idle", name |-> <<>>, coord |-> <<>>, pre |-> EmptyDict, out |-> "none"]

\* what is kept of a completed flow: the save_location calls
Summary(f) ==
    IF f.op = "save_location"
    THEN [op |-> f.op, name |-> f.name, coord |-> f.coord, pre |-> f.pre, out |-> f.out]
    ELSE NoSummary

Idle(p) == p \in active /\ fl[p].pc = "done" /\ quota[p] # 0

\* the frame of a flow that starts now
Fresh(op) == [IdleFrame EXCEPT !.op = op, !.pc = "start", !.pre = doc, !.out = "running"]

Ev(kind, text) == [kind |-> kind, text |-> text]

Say(f, kind, text) == [f EXCEPT !.console = Append(@, Ev(kind, text))]

Return(f) == [f EXCEPT !.pc = "done", !.out = "returned"]

Propagate(f, exc) == [f EXCEPT !.pc = "done", !.out = exc]

\* pcs between a load_config and the save_config that follows it
Loaded == {"save_store", "cur_store", "del_store"}

\* p starts a flow with frame f
Start(p, f) ==
    /\ Idle(p)
    /\ fl' = [fl EXCEPT ![p] = f]
    /\ prev' = [prev EXCEPT ![p] = Summary(fl[p])]
    /\ quota' = [quota EXCEPT ![p] = IF @ > 0 THEN @ - 1 ELSE @]
    /\ UNCHANGED <<doc, missed>>

\* p continues its flow with frame f, the document untouched
Step(p, f) ==
    /\ fl' = [fl EXCEPT ![p] = f]
    /\ UNCHANGED <<prev, doc, missed, quota>>

\* p reads the document: config = load_config()
Load(p, nextpc) ==
    /\ fl' = [fl EXCEPT ![p] = [@ EXCEPT !.cfg = load_config(doc), !.loaded = TRUE,
                                         !.pc = nextpc]]
    /\ missed' = [missed EXCEPT ![p] = {}]
    /\ UNCHANGED <<prev, doc, quota>>

\* p writes the document: save_config(configuration), then finishes as f
Store(p, configuration, f) ==
    /\ doc' = save_config(configuration)
    /\ fl' = [q \in DOMAIN fl |->
                IF q = p
                THEN [f EXCEPT !.saved = TRUE, !.latest = TRUE, !.lost = missed[p]]
                ELSE [fl[q] EXCEPT !.latest = FALSE]]
    /\ missed' = [q \in DOMAIN missed |->
                    IF q # p /\ fl[q].pc \in Loaded THEN missed[q] \cup {p} ELSE {}]
    /\ UNCHANGED <<prev, quota>>

Fixed == <<value, verdict, VARS, active>>

---------------------------------------------------------------------------
(* save_location and load_locations, called directly *)

CallSaveLocation(p) ==
    /\ \E n \in ArgNames, c \in ArgCoords :
         Start(p, [Fresh("save_location") EXCEPT
                     !.name = n, !.coord = c, !.pc = "save_load"])
    /\ UNCHANGED Fixed

\* configuration = load_config()
SaveLocationLoad(p) ==
    /\ p \in active /\ fl[p].pc = "save_load"
    /\ Load(p, "save_store")
    /\ UNCHANGED Fixed

\* what the caller of save_location prints once it has returned
AfterSave(f) ==
    CASE f.op = "add_location" ->
           Return(Say(f, "print", <<"New", "location", "saved", "successfully", ".">>))
      [] f.op = "search_location" ->
           Return(Say(f, "print", <<"Location", "saved", "successfully", ".">>))
      [] OTHER -> Return(f)

\* a save that reads the document again as it writes
SaveLocationStoreFresh(p) ==
    /\ p \in active /\ fl[p].pc = "save_store"
    /\ Store(p, SetDefaultPut(load_config(doc), fl[p].name, fl[p].coord), AfterSave(fl[p]))
    /\ UNCHANGED Fixed

\* the upsert and save_config(configuration)
SaveLocationStore(p) ==
    /\ p \in active /\ fl[p].pc = "save_store"
    /\ Store(p, SetDefaultPut(fl[p].cfg, fl[p].name, fl[p].coord), AfterSave(fl[p]))
    /\ UNCHANGED Fixed

CallLoadLocations(p) ==
    /\ \E b \in BOOLEAN :
         Start(p, Return([Fresh("load_locations") EXCEPT
                            !.sensitive = b,
                            !.ret = load_locations(doc, VARS, b)]))
    /\ UNCHANGED Fixed

---------------------------------------------------------------------------
(* add_location *)

\* an exit test that asks for the confirmation alone
InputAcceptedUnchecked(coordinate, done) == done

\* the exit test of get_location_input's loop
InputAccepted(coordinate, done) == is_valid_location(coordinate) /\ done

\* one round of get_location_input; when it returns, add_location's own
\* confirm follows
InputRound(f, n, c, done, save) ==
    LET f1 == Say(Say(Say(f, "input", <<"Enter", "location", "name", ":">>),
                      "print", <<"Enter", "comma", "separated", "coordinates">>),
                  "input", <<">">>)
        f2 == IF is_valid_location(c) THEN Say(f1, "confirm", <<"Done", "?">>) ELSE f1
    IN  IF InputAccepted(c, done)
        THEN LET f3 == Say([f2 EXCEPT !.name = n, !.coord = c],
                           "confirm", <<"Save", "this", "location", "?">>)
             IN  IF save THEN [f3 EXCEPT !.pc = "save_load"] ELSE Return(f3)
        ELSE [f2 EXCEPT !.pc = "input", !.retries = @ + 1]

AddLocation(p) ==
    /\ \E n \in TypedNames, c \in TypedCoords, done \in BOOLEAN, save \in BOOLEAN :
         /\ InputAccepted(c, done) \/ 0 < MaxRetries
         /\ Start(p, InputRound(Fresh("add_location"), n, c, done, save))
    /\ UNCHANGED Fixed

\* the loop of get_location_input goes round again
AddLocationRetry(p) ==
    /\ p \in active /\ fl[p].pc = "input"
    /\ \E n \in TypedNames, c \in TypedCoords, done \in BOOLEAN, save \in BOOLEAN :
         /\ InputAccepted(c, done) \/ fl[p].retries < MaxRetries
         /\ Step(p, InputRound(fl[p], n, c, done, save))
    /\ UNCHANGED Fixed

---------------------------------------------------------------------------
(* search_location and save_current_location *)

\* except KeyError as e
FlowCatchesKeyError(exc) == IsInstance(exc, "KeyError")

\* except CLIWeatherException as e
FlowCatches(exc) == IsInstance(exc, "CLIWeatherException")

\* the flow's handling of an exception out of get_location
OnRaise(f, r) ==
    IF FlowCatches(r.exc)
    THEN Return(Say(f, "print", <<"Error", ":">> \o r.msg))
    ELSE Propagate(f, r.exc)

\* all((address, lat, lon))
AllTruthy(r) == r.address # <<>> /\ r.lat.m # 0 /\ r.lon.m # 0

SearchLocation(p) ==
    /\ \E q \in Queries : \E w \in Worlds(q) :
         LET r  == get_location(q, w)
             f1 == [Say(Fresh("search_location"), "input",
                        <<"Enter", "location", "to", "search", ":">>)
                      EXCEPT !.query = q, !.world = w, !.res = r]
             f2 == Say(Say(f1, "print", <<"Address", "found", ":">>),
                       "confirm", <<"Save", "this", "location", "?">>)
             f3(typed) ==
                   [Say(f2, "input", <<"Enter", "a", "name", "for", "this", "location", ":">>)
                      EXCEPT !.name = IF Strip(typed) # <<>> THEN Strip(typed)
                                      ELSE r.address,
                             !.coord = CoordStr(r.lat, r.lon),
                             !.pc = "save_load"]
         IN  IF r.kind = "raise" THEN Start(p, OnRaise(f1, r))
             ELSE IF ~AllTruthy(r)
             THEN Start(p, Return(Say(f1, "print", <<"Location", "not", "found", ".">>)))
             ELSE \/ Start(p, Return(f2))
                  \/ \E typed \in TypedSaveNames : Start(p, f3(typed))
    /\ UNCHANGED Fixed

SaveCurrentLocation(p) ==
    /\ \E w \in MeWorlds :
         LET r  == get_location(<<"m", "e">>, w)
             f1 == [Fresh("save_current_location") EXCEPT
                      !.query = <<"m", "e">>, !.world = w, !.res = r]
             f2 == Say(Say(f1, "print", <<"Current", "location", ":">>),
                       "confirm", <<"Do", "you", "want", "to", "rename", "?">>)
             renamed(typed) ==
                   [Say(f2, "input", <<"Enter", "new", "name", ":">>)
                      EXCEPT !.name = typed]
             kept == [f2 EXCEPT !.name = r.address]
             f4(f3, save) ==
                   LET f == Say(f3, "confirm", <<"Save", "this", "location", "?">>)
                   IN  IF save
                       THEN [f EXCEPT !.coord = CoordStr(r.lat, r.lon), !.pc = "cur_load"]
                       ELSE Return(f)
         IN  IF r.kind = "raise" THEN Start(p, OnRaise(f1, r))
             ELSE \E save \in BOOLEAN :
                    \/ Start(p, f4(kept, save))
                    \/ \E typed \in TypedNames : Start(p, f4(renamed(typed), save))
    /\ UNCHANGED Fixed

\* config = load_config()
SaveCurrentLoad(p) ==
    /\ p \in active /\ fl[p].pc = "cur_load"
    /\ Load(p, "cur_store")
    /\ UNCHANGED Fixed

\* config["locations"][current_addr] = ...; save_config(config)
SaveCurrentStore(p) ==
    /\ p \in active /\ fl[p].pc = "cur_store"
    /\ LET f == fl[p]
       IN  IF "locations" \notin DOMAIN f.cfg
           THEN Step(p, Propagate(f, "KeyError"))
           ELSE Store(p, Put(f.cfg, "locations", Put(f.cfg["locations"], f.name, f.coord)),
                      Return(Say(f, "print",
                                 <<"Current", "location", "saved", "successfully", ".">>)))
    /\ UNCHANGED Fixed

---------------------------------------------------------------------------
(* delete_location *)

\* choose_location(task="to delete") and the confirmation.  get_index only
\* returns an index into the mapping it was given, so an empty listing never
\* yields a choice.
DeleteLocation(p) ==
    /\ LET coordinates == load_locations(doc, VARS, FALSE)
       IN  \E n \in DOMAIN coordinates, sure \in BOOLEAN :
             LET f0 == Say(Say(Fresh("delete_location"),
                               "print", <<"Choose", "a", "location", "to", "delete", ":">>),
                           "input", <<"index">>)
                 f1 == Say([f0 EXCEPT !.name = n],
                           "confirm", <<"Are", "you", "sure", "?">>)
             IN  Start(p, IF Len(Split(coordinates[n], ",")) # 2
                          THEN Propagate(f0, "ValueError")
                          ELSE IF sure THEN [f1 EXCEPT !.pc = "del_load"]
                          ELSE Return(f1))
    /\ UNCHANGED Fixed

\* config = load_config()
DeleteLoad(p) ==
    /\ p \in active /\ fl[p].pc = "del_load"
    /\ Load(p, "del_store")
    /\ UNCHANGED Fixed

\* a deletion that tolerates a missing name: config["locations"].pop(name, None)
DeleteEntryPop(config, location_name) ==
    IF "locations" \notin DOMAIN config
    THEN [exc |-> "KeyError", config |-> config]
    ELSE [exc |-> "none",
          config |-> Put(config, "locations", Remove(config["locations"], location_name))]

\* del config["locations"][location_name]
DeleteEntry(config, location_name) ==
    IF \/ "locations" \notin DOMAIN config
       \/ location_name \notin DOMAIN config["locations"]
    THEN [exc |-> "KeyError", config |-> config]
    ELSE [exc |-> "none",
          config |-> Put(config, "locations", Remove(config["locations"], location_name))]

\* the deletion and save_config(config)
DeleteStore(p) ==
    /\ p \in active /\ fl[p].pc = "del_store"
    /\ LET f == fl[p]
           d == DeleteEntry(f.cfg, f.name)
       IN  IF d.exc # "none"
           THEN Step(p, Propagate(f, d.exc))
           ELSE Store(p, d.config,
                      Return(Say(f, "print", <<"deleted", "successfully", ".">>)))
    /\ UNCHANGED Fixed

---------------------------------------------------------------------------
(* Specifications *)

LocMaps == UNION {[ns -> ArgCoords] : ns \in SUBSET ArgNames}

\* the documents a run may start from: without a "locations" key, or with one
Docs == {EmptyDict} \cup {[k \in {"locations"} |-> L] : L \in LocMaps}

EnvNames == {NameA, <<"K">>}
EnvValues == {CoordOk, CoordBad, <<"9", ",", "9">>}
EnvMaps == UNION {[ns -> EnvValues] : ns \in SUBSET EnvNames}

EnvDefault == [k \in EnvNames |-> IF k = NameA THEN <<"9", ",", "9">> ELSE CoordBad]

InitProcs(procs, flows) ==
    /\ value = <<>> /\ verdict = "unused"
    /\ active = procs
    /\ fl = [p \in procs |-> IdleFrame]
    /\ prev = [p \in procs |-> NoSummary]
    /\ missed = [p \in procs |-> {}]
    /\ quota = [p \in procs |-> flows]

\* one invocation of the tool calling the repository operations
Init == InitProcs({1}, -1) /\ VARS = EnvDefault /\ doc \in Docs

Next ==
    \E p \in active :
        \/ CallSaveLocation(p)
        \/ SaveLocationLoad(p)
        \/ SaveLocationStore(p)
        \/ CallLoadLocations(p)
        \/ DeleteLocation(p)
        \/ DeleteLoad(p)
        \/ DeleteStore(p)

Spec == Init /\ [][Next]_vars

\* several invocations of the tool on one configuration file, each of them
\* one call of save_location or one delete_location flow
InitRace == InitProcs(1..NumProcs, 1) /\ VARS = EnvDefault /\ doc \in Docs

NextRace ==
    \E p \in active :
        \/ CallSaveLocation(p)
        \/ SaveLocationLoad(p)
        \/ SaveLocationStore(p)
        \/ DeleteLocation(p)
        \/ DeleteLoad(p)
        \/ DeleteStore(p)

SpecRace == InitRace /\ [][NextRace]_vars

\* the interactive flows alone, from a document of valid entries
AllValid(d) ==
    \A n \in DOMAIN Get(d, "locations", EmptyDict) : is_valid_location(d["locations"][n])

InitCLI == InitProcs({1}, -1) /\ VARS = EnvDefault /\ doc \in {d \in Docs : AllValid(d)}

NextCLI ==
    \E p \in active :
        \/ AddLocation(p)
        \/ AddLocationRetry(p)
        \/ SearchLocation(p)
        \/ SaveCurrentLocation(p)
        \/ SaveCurrentLoad(p)
        \/ SaveCurrentStore(p)
        \/ DeleteLocation(p)
        \/ DeleteLoad(p)
        \/ DeleteStore(p)
        \/ SaveLocationLoad(p)
        \/ SaveLocationStore(p)

SpecCLI == InitCLI /\ [][NextCLI]_vars

\* load_locations alone, over every document and environment
InitLoad == InitProcs({1}, -1) /\ VARS \in EnvMaps /\ doc \in Docs

NextLoad == \E p \in active : CallLoadLocations(p)

SpecLoad == InitLoad /\ [][NextLoad]_vars

---------------------------------------------------------------------------
(* Properties *)

Locations(d) == IF "locations" \in DOMAIN d THEN d["locations"] ELSE EmptyDict

\* msg contains the words of phrase, adjacent and in order
Mentions(msg, phrase) ==
    \E i \in 1..Len(msg) :
        /\ i + Len(phrase) - 1 <= Len(msg)
        /\ \A j \in 1..Len(phrase) : msg[i + j - 1] = phrase[j]

\* C1: is_valid_location(s) answers true exactly when s splits on "," into
\* two tokens that both parse as floats, the first within [-90, 90] and the
\* second within [-180, 180]; otherwise it answers false, and no exception
\* leaves the call.
C1_ValidatorIff ==
    verdict # "pending" =>
        LET toks == Split(value, ",")
            two  == /\ Len(toks) = 2
                    /\ ParseFloat(toks[1]).ok
                    /\ ParseFloat(toks[2]).ok
        IN  /\ verdict \in {"True", "False"}
            /\ (verdict = "True") <=>
                 (/\ two
                  /\ FloatBetween(-90, ParseFloat(toks[1]).val, 90)
                  /\ FloatBetween(-180, ParseFloat(toks[2]).val, 180))

C1_Witness ==
    /\ verdict = "True"
    /\ value = <<"-", "9", "0", ",", " ", "1">> \/ value = <<"-", "9", "0", ",", "1">>

\* C2: after save_location(n, c) has returned, a load_locations() that
\* follows it returns a mapping in which n maps to exactly c, whatever the
\* document was before, a document without a "locations" key included.
C2_SaveThenLoad ==
    \A p \in active :
        (/\ fl[p].op = "load_locations"
         /\ prev[p].op = "save_location"
         /\ prev[p].out = "returned")
        => /\ prev[p].name \in DOMAIN fl[p].ret
           /\ fl[p].ret[prev[p].name] = prev[p].coord

C2_Witness ==
    \E p \in active :
        /\ fl[p].op = "load_locations" /\ ~fl[p].sensitive
        /\ prev[p].op = "save_location"
        /\ "locations" \notin DOMAIN prev[p].pre
        /\ fl[p].ret[prev[p].name] = prev[p].coord

\* C3: save_location(A, c1) followed by save_location(A, c2) leaves A mapped
\* to c2 alone, and every other name as it was before the two calls.
C3_Upsert ==
    \A p \in active :
        (/\ fl[p].op = "save_location" /\ fl[p].pc = "done"
         /\ prev[p].op = "save_location"
         /\ prev[p].name = fl[p].name)
        => LET L      == Locations(doc)
               before == Locations(prev[p].pre)
               others == DOMAIN L \ {fl[p].name}
           IN  /\ "locations" \in DOMAIN doc
               /\ fl[p].name \in DOMAIN L
               /\ L[fl[p].name] = fl[p].coord
               /\ others = DOMAIN before \ {fl[p].name}
               /\ \A n \in others : L[n] = before[n]

C3_Witness ==
    \E p \in active :
        /\ fl[p].op = "save_location" /\ fl[p].pc = "done"
        /\ prev[p].op = "save_location"
        /\ prev[p].name = fl[p].name
        /\ prev[p].coord # fl[p].coord
        /\ DOMAIN Locations(doc) # {fl[p].name}
        /\ Locations(doc)[fl[p].name] = fl[p].coord

\* C4: when the deleting step of delete_location runs for a name that the
\* "locations" map of the document it loaded does not hold, it raises
\* KeyError, save_config is not called and the persisted document stays as
\* it was.
C4_DeleteMissing ==
    [][\A p \in active :
          (/\ fl[p].pc = "del_store"
           /\ fl'[p].pc = "done"
           /\ fl[p].name \notin DOMAIN Locations(fl[p].cfg))
          => /\ fl'[p].out = "KeyError"
             /\ ~fl'[p].saved
             /\ doc' = doc]_vars

C4_Witness ==
    \E p \in active :
        /\ fl[p].op = "delete_location" /\ fl[p].pc = "done"
        /\ fl[p].loaded
        /\ "locations" \in DOMAIN fl[p].cfg
        /\ fl[p].name \notin DOMAIN fl[p].cfg["locations"]
        /\ fl[p].out = "KeyError"

\* C5: load_locations(add_sensitive=True) returns the entries of VARS whose
\* value the validator accepts, overridden by every entry of the
\* non-sensitive map L; an environment entry the validator rejects shows
\* only if L has its name.  load_locations(add_sensitive=False) returns L.
C5_LoadMerge ==
    \A p \in active :
        fl[p].op = "load_locations" =>
            LET L     == Locations(doc)
                ret   == fl[p].ret
                valid == {k \in DOMAIN VARS : is_valid_location(VARS[k])}
            IN  IF fl[p].sensitive
                THEN /\ DOMAIN ret = valid \cup DOMAIN L
                     /\ \A k \in DOMAIN ret :
                          ret[k] = IF k \in DOMAIN L THEN L[k] ELSE VARS[k]
                     /\ \A k \in DOMAIN VARS \ valid :
                          k \in DOMAIN ret => k \in DOMAIN L
                ELSE ret = L

C5_Witness ==
    \E p \in active :
        /\ fl[p].op = "load_locations" /\ fl[p].sensitive
        /\ \E k \in DOMAIN VARS \cap DOMAIN Locations(doc) :
             /\ is_valid_location(VARS[k])
             /\ VARS[k] # doc["locations"][k]
             /\ fl[p].ret[k] = doc["locations"][k]
        /\ \E k \in DOMAIN VARS :
             ~is_valid_location(VARS[k]) /\ k \notin DOMAIN fl[p].ret

IsMe(q) == Lower(q) = <<"m", "e">>

RaisedDomainError(r) == r.kind = "raise" /\ r.exc = "CLIWeatherException"

\* geolocator.reverse is reached: the transport answered with a "loc" of two floats
ReverseCalled(w) ==
    w.ip = "ok" /\ w.hasLoc /\ UnpackFloats(Split(w.loc, ",")).exc = "none"

\* C6: get_location hands each listed failure to its caller as
\* CLIWeatherException: for "me" in any letter case a transport timeout,
\* connection error or other request failure, a geocoder timeout and an
\* unavailable geocoder; for another query a geocoder timeout, an unavailable
\* geocoder and a lookup without a match.  A transport timeout during "me"
\* gives a message that mentions "timed out" or "connection".
C6_ErrorMapping ==
    \A p \in active :
        fl[p].op \in {"search_location", "save_current_location"} =>
            LET q == fl[p].query
                w == fl[p].world
                r == fl[p].res
            IN  /\ (IsMe(q) /\ w.ip \in TransportExcs) => RaisedDomainError(r)
                /\ (/\ IsMe(q) /\ ReverseCalled(w)
                    /\ w.rev \in {"GeocoderTimedOut", "GeocoderUnavailable"})
                   => RaisedDomainError(r)
                /\ (/\ ~IsMe(q)
                    /\ w.geo \in {"none", "GeocoderTimedOut", "GeocoderUnavailable"})
                   => RaisedDomainError(r)
                /\ (IsMe(q) /\ w.ip \in {"Timeout", "ConnectTimeout", "ReadTimeout"})
                   => \/ Mentions(r.msg, <<"timed", "out">>)
                      \/ Mentions(r.msg, <<"connection">>)

C6_Witness ==
    \E p \in active :
        /\ fl[p].op = "search_location"
        /\ fl[p].query = <<"M", "E">>
        /\ fl[p].world.ip = "ConnectTimeout"
        /\ RaisedDomainError(fl[p].res)
        /\ Mentions(fl[p].res.msg, <<"timed", "out">>)

PersistingFlows ==
    {"save_location", "add_location", "search_location", "save_current_location"}

\* C7: from a document without a "locations" key, every flow that goes on to
\* persist a location (save_location, add_location, search_location and
\* save_current_location once confirmed) completes without error and leaves
\* a document whose "locations" map holds the new entry.
C7_CreatedOnFirstWrite ==
    \A p \in active :
        (/\ fl[p].op \in PersistingFlows
         /\ fl[p].pc = "done" /\ fl[p].loaded
         /\ "locations" \notin DOMAIN fl[p].pre)
        => /\ fl[p].out = "returned"
           /\ fl[p].name \in DOMAIN Locations(doc)
           /\ Locations(doc)[fl[p].name] = fl[p].coord

\* C8: when get_location raises CLIWeatherException inside search_location
\* or save_current_location, the flow prints the message and returns to its
\* caller; it asks nothing further and the persisted document is unchanged.
C8_ResolverErrorEndsFlow ==
    \A p \in active :
        (/\ fl[p].op \in {"search_location", "save_current_location"}
         /\ RaisedDomainError(fl[p].res))
        => LET c == fl[p].console
               n == Len(c)
           IN  /\ fl[p].pc = "done" /\ fl[p].out = "returned"
               /\ n >= 1
               /\ c[n] = Ev("print", <<"Error", ":">> \o fl[p].res.msg)
               /\ \A i \in 1..n :
                    c[i].kind \in {"input", "confirm"}
                    => fl[p].op = "search_location" /\ i = 1
               /\ ~fl[p].saved /\ ~fl[p].loaded
               /\ doc = fl[p].pre

C8_Witness ==
    \E p \in active :
        /\ fl[p].op = "save_current_location"
        /\ RaisedDomainError(fl[p].res)
        /\ fl[p].world.rev = "GeocoderUnavailable"
        /\ fl[p].out = "returned"

\* p and q called save_location with distinct names, both read the document
\* before either wrote it, and q wrote last
Interleaved(p, q) ==
    /\ p # q
    /\ fl[p].op = "save_location" /\ fl[p].pc = "done"
    /\ fl[q].op = "save_location" /\ fl[q].pc = "done"
    /\ fl[p].name # fl[q].name
    /\ p \in fl[q].lost
    /\ fl[q].latest

\* C9 as stated: of two interleaved save_location calls with distinct names
\* the final document holds the entry of the call that saved last, the
\* other call's entry (its name with its coordinate) is missing, and neither
\* call reports an error.
C9_OtherEntryMissing ==
    \A p, q \in active :
        Interleaved(p, q) =>
            /\ fl[q].name \in DOMAIN Locations(doc)
            /\ Locations(doc)[fl[q].name] = fl[q].coord
            /\ ~(/\ fl[p].name \in DOMAIN Locations(doc)
                 /\ Locations(doc)[fl[p].name] = fl[p].coord)
            /\ fl[p].out = "returned" /\ fl[q].out = "returned"

\* C9 amended: of two interleaved save_location calls with distinct names
\* the final document holds the entry of the call that saved last, and under
\* the other name what the document that call had loaded held (nothing, if
\* the name was absent there): the other call's write is lost, and neither
\* call reports an error.
C9_LastWriterWins ==
    \A p, q \in active :
        Interleaved(p, q) =>
            LET L   == Locations(doc)
                old == Locations(fl[q].cfg)
            IN  /\ fl[q].name \in DOMAIN L
                /\ L[fl[q].name] = fl[q].coord
                /\ fl[p].name \in DOMAIN L <=> fl[p].name \in DOMAIN old
                /\ fl[p].name \in DOMAIN L => L[fl[p].name] = old[fl[p].name]
                /\ fl[p].out = "returned" /\ fl[q].out = "returned"

C9_Witness ==
    \E p, q \in active :
        /\ Interleaved(p, q)
        /\ fl[p].name \notin DOMAIN Locations(doc)
        /\ Locations(doc)[fl[q].name] = fl[q].coord

\* C10: from a document whose coordinates all satisfy is_valid_location, and
\* with the resolver answering within range, every coordinate in the
\* "locations" map satisfies is_valid_location after any sequence of
\* add_location, search_location, save_current_location and delete_location.
C10_EntriesValid ==
    \A n \in DOMAIN Locations(doc) : is_valid_location(Locations(doc)[n])

C10_Witness ==
    \E p \in active :
        /\ fl[p].op = "add_location" /\ fl[p].pc = "done"
        /\ fl[p].retries > 0 /\ fl[p].saved
        /\ Locations(doc)[fl[p].name] = fl[p].coord

====
